---- MODULE Spec2Model ----
(***************************************************************************)
(* Model of pmxbot/irc.py: WarnHistory (privacy-warning rate limiting) and *)
(* LoggingCommandBot (event handlers, at-time task scheduling, timers).    *)
(* Every handler of the bot is one atomic action; the transport's timer    *)
(* subsystem is the bag `timers`, fired by TimerFire.                      *)
(***************************************************************************)
EXTENDS Integers, Sequences, FiniteSets, Bags, TLC

VARIABLES
    config,           \* pmxbot.config (read-only after start-up)
    JoinRegistry,     \* core.JoinHandler._registry
    LeaveRegistry,    \* core.LeaveHandler._registry
    AtRegistry,       \* core.AtHandler._registry
    DelayFaults,      \* handlers of core.DelayHandler._registry whose
                      \* duration the transport's executor rejects (it raises)
    inbox,            \* message events the transport has yet to deliver
    outbox,           \* handler output yet to be handed to transmit
    warn_history,     \* self.warn_history : nick -> time of last warning
    scheduled_tasks,  \* self._scheduled_tasks
    channels,         \* self._channels
    timers,           \* commands scheduled on the connection / reactor
    armed,            \* history: (key, timer) for every timer _schedule_at armed
    noticed,          \* history: nick -> time the last warning was sent to it
    now,              \* datetime.datetime.utcnow(), in seconds
    welcomes,         \* number of on_welcome events delivered so far
    last              \* observable effects of the most recent handler

vars == <<config, JoinRegistry, LeaveRegistry, AtRegistry, DelayFaults, inbox, outbox,
          warn_history,
          scheduled_tasks, channels, timers, armed, noticed, now, welcomes, last>>

registries == <<config, JoinRegistry, LeaveRegistry, AtRegistry, DelayFaults>>
environment == <<registries, inbox, outbox>>
warning == <<warn_history, noticed>>
scheduling == <<scheduled_tasks, timers, armed, welcomes>>

(***************************************************************************)
(* Bounds of the model                                                     *)
(***************************************************************************)
MaxWelcomes == 2      \* on_welcome events per bot (connect + reconnects)
MaxAt == 3            \* length of the at-time registry
MaxHandlers == 3      \* length of the join / leave registries
MaxTime == 125        \* last clock value, seconds
MaxInvites == 2       \* invite events per bot
MaxMsg == 6           \* length of a text handed to transmit
MaxPart == 2          \* length of one element of event.arguments

(***************************************************************************)
(* Program constants and the finite universe of inputs                     *)
(***************************************************************************)
warn_every == 60      \* WarnHistory.warn_every, seconds
WarnLines == 5        \* lines of WarnHistory.warn_message after formatting

nickname == "pmxbotTest"
Nicks == {"alice", "bob", nickname}
log_channels == {"#logged"}
EventChannels == {"#logged", "#inane"}
ClockSteps == {30, 31}

\* channel names of self._channels are character sequences (prefix rule)
InitialChannels == << <<"#", "l">>, <<"i">> >>
\* channel names an invite event may carry (event.arguments[0])
InviteNames == { <<"c">>, <<"#", "c">>, <<"i">>, <<"#", "l">> }

\* values of `when`: datetime.datetime, datetime.date, datetime.time, other
When(shape, day, tod, tz) == [shape |-> shape, day |-> day, tod |-> tod, tz |-> tz]
NoWhen == When("none", 0, 0, "")
Whens == { When("datetime", 1, 9, "naive"),
           When("datetime", 1, 0, "UTC"),
           When("date", 1, 0, ""),
           When("time", 0, 9, "naive"),
           When("other", 0, 0, "") }
Funcs == {"f1"}
AtHandlers == [name : {"n"}, channel : {"#logged"}, when : Whens,
               func : Funcs, doc : {"d"}]

DelayRegistry ==
    << [channel |-> "#logged", func |-> "d1", duration |-> 30, repeat |-> TRUE],
       [channel |-> "#inane",  func |-> "d2", duration |-> 60, repeat |-> FALSE] >>

\* texts are character sequences
Whitespace == {" ", "\t"}
MsgChars == {" ", "\t", "a"}
OutChars == {"/", "m", "e", " "}
SendOutcomes == {"ok", "MessageTooLong", "InvalidCharacters"}

\* a Python positional argument: a plain value or a tuple of values
Scalar(s) == [tuple |-> FALSE, items |-> <<s>>]
Tuple(seq) == [tuple |-> TRUE, items |-> seq]

\* functools.partial(self.background_runner, *args)
Partial(args) == [target |-> "background_runner", args |-> args]

Range(seq) == {seq[i] : i \in DOMAIN seq}


(***************************************************************************)
(* WarnHistory                                                             *)
(***************************************************************************)
\* faulty variant of _expired: the cooldown ends at exactly warn_every
_expired_at_boundary(lastWarned, t) == t - lastWarned >= warn_every

\* WarnHistory._expired
_expired(lastWarned, t) == t - lastWarned > warn_every

\* WarnHistory.needs_warning: the verdict and the map afterwards
needs_warning(hist, key, t) ==
    IF key \notin DOMAIN hist \/ _expired(hist[key], t)
    THEN [result |-> TRUE,
          hist |-> [n \in DOMAIN hist \cup {key} |-> IF n = key THEN t ELSE hist[n]]]
    ELSE [result |-> FALSE, hist |-> hist]

\* faulty variant of warn: the map is consulted before the suppression test
warn_lookup_first(hist, nick, t, cfg) ==
    LET r == needs_warning(hist, nick, t)
    IN  IF ~r.result \/ cfg.privacy_warning = "suppress"
        THEN [hist |-> r.hist, notices |-> 0, lookups |-> 1]
        ELSE [hist |-> r.hist, notices |-> WarnLines, lookups |-> 1]

\* WarnHistory.warn: the map afterwards, the notices sent to nick, and the
\* number of times the map was consulted
warn(hist, nick, t, cfg) ==
    IF cfg.privacy_warning = "suppress"
    THEN [hist |-> hist, notices |-> 0, lookups |-> 0]
    ELSE LET r == needs_warning(hist, nick, t)
         IN  IF ~r.result
             THEN [hist |-> r.hist, notices |-> 0, lookups |-> 1]
             ELSE [hist |-> r.hist, notices |-> WarnLines, lookups |-> 1]

(***************************************************************************)
(* Fan-out of join / leave events                                          *)
(***************************************************************************)
\* faulty variant of fan_out: no try/except around the handler call
RECURSIVE fan_out_no_try(_, _, _)
fan_out_no_try(registry, raising, acc) ==
    IF registry = <<>> THEN acc
    ELSE LET handler == Head(registry)
             ran == [acc EXCEPT !.invoked = Append(@, handler)]
         IN  IF handler \in raising
             THEN [ran EXCEPT !.raised = TRUE]
             ELSE fan_out_no_try(Tail(registry), raising, ran)

\* the loop `for handler in registry: try: handler.attach(locals())()
\* except Exception: log.exception(...)`; raising = the handlers that raise
RECURSIVE fan_out(_, _, _)
fan_out(registry, raising, acc) ==
    IF registry = <<>> THEN acc
    ELSE LET handler == Head(registry)
             ran == [acc EXCEPT !.invoked = Append(@, handler)]
         IN  IF handler \in raising
             THEN fan_out(Tail(registry), raising,
                          [ran EXCEPT !.logged = Append(@, handler)])
             ELSE fan_out(Tail(registry), raising, ran)

NoFanOut == [invoked |-> <<>>, logged |-> <<>>, raised |-> FALSE]

\* faulty variant of the warning guard: the bot's own join qualifies too
qualifying_any_nick(nick, channel) == channel \in log_channels

\* the two early returns in front of warn_history.warn
qualifying(nick, channel) == channel \in log_channels /\ nick # nickname

\* LoggingCommandBot.on_join
on_join ==
    \E nick \in Nicks, channel \in EventChannels, raising \in SUBSET Range(JoinRegistry) :
        LET f == fan_out(JoinRegistry, raising, NoFanOut)
            qualifies == ~f.raised /\ qualifying(nick, channel)
            w == IF qualifies THEN warn(warn_history, nick, now, config)
                 ELSE [hist |-> warn_history, notices |-> 0, lookups |-> 0]
        IN  /\ warn_history' = w.hist
            /\ noticed' = IF w.notices = 0 THEN noticed
                          ELSE [n \in DOMAIN noticed \cup {nick} |->
                                    IF n = nick THEN now ELSE noticed[n]]
            /\ last' = [op |-> "join", nick |-> nick, channel |-> channel,
                        raising |-> raising,
                        invoked |-> f.invoked, logged |-> f.logged,
                        raised |-> f.raised,
                        warn_called |-> qualifies,
                        notices |-> w.notices, lookups |-> w.lookups,
                        before |-> warn_history, noticed_before |-> noticed,
                        at |-> now]
            /\ UNCHANGED <<environment, scheduling, channels, now>>

\* LoggingCommandBot.on_leave
on_leave ==
    \E nick \in Nicks, channel \in EventChannels, raising \in SUBSET Range(JoinRegistry) :
        LET f == fan_out(JoinRegistry, raising, NoFanOut)
        IN  /\ last' = [op |-> "leave", nick |-> nick, channel |-> channel,
                        raising |-> raising,
                        invoked |-> f.invoked, logged |-> f.logged,
                        raised |-> f.raised,
                        warn_called |-> FALSE, notices |-> 0, lookups |-> 0,
                        before |-> warn_history, noticed_before |-> noticed,
                        at |-> now]
            /\ UNCHANGED <<environment, warning, scheduling, channels, now>>

\* the clock behind datetime.datetime.utcnow() moves forward
Tick ==
    \E d \in ClockSteps :
        /\ now + d <= MaxTime
        /\ now' = now + d
        /\ last' = [op |-> "tick"]
        /\ UNCHANGED <<environment, warning, scheduling, channels>>

(***************************************************************************)
(* Timers of the transport, as the bot creates them                        *)
(***************************************************************************)
Command(kind, when, delay, repeat, runner) ==
    [kind |-> kind, when |-> when, delay |-> delay, repeat |-> repeat,
     runner |-> runner]

\* irc.schedule.DelayedCommand.at_time(when, runner_func)
at_time(when, runner) == Command("at_time", when, 0, FALSE, runner)
\* irc.schedule.PeriodicCommandFixedDelay.daily_at(when, runner_func)
daily_at(when, runner) == Command("daily_at", when, 0, TRUE, runner)
\* connection.execute_every(duration, runner)
execute_every(duration, runner) == Command("execute_every", NoWhen, duration, TRUE, runner)
\* connection.execute_delayed(duration, runner)
execute_delayed(duration, runner) ==
    Command("execute_delayed", NoWhen, duration, FALSE, runner)

\* isinstance(when, datetime.date): datetime.datetime is a subclass of datetime.date
isinstance_date(when) == when.shape \in {"date", "datetime"}
isinstance_datetime(when) == when.shape = "datetime"
isinstance_time(when) == when.shape = "time"

\* datetime.time(0, 0, tzinfo=pytz.UTC)
midnight == When("time", 0, 0, "UTC")
\* datetime.datetime.combine(date, time): the date part of its first argument
\* (whose own time and tzinfo are ignored) with the time and tzinfo of the second
combine(date, time) == When("datetime", date.day, time.tod, time.tz)

(***************************************************************************)
(* LoggingCommandBot._schedule_at                                          *)
(***************************************************************************)
\* faulty variant of unique_task_of: the key leaves out `when`
unique_task_without_when(name, channel, when, func, doc) ==
    [func |-> func, name |-> name, channel |-> channel, when |-> NoWhen, doc |-> doc]

\* the key (func, name, channel, when, doc)
unique_task_of(name, channel, when, func, doc) ==
    [func |-> func, name |-> name, channel |-> channel, when |-> when, doc |-> doc]

\* faulty variant of already_scheduled: no membership test
never_scheduled(unique_task, tasks) == FALSE

\* `if unique_task in self._scheduled_tasks: return`
already_scheduled(unique_task, tasks) == unique_task \in tasks

\* st = [tasks, timers, armed]; the result adds the outcome of the call:
\* "duplicate" (silent return), "armed" (one command scheduled) or
\* "ValueError" (raised to the caller)
_schedule_at(st, name, channel, when, func, doc) ==
    LET unique_task == unique_task_of(name, channel, when, func, doc)
        runner_func == Partial(<<Scalar(channel), Scalar(func)>>)
        when2 == IF isinstance_date(when) THEN combine(when, midnight) ELSE when
        added == [st EXCEPT !.tasks = @ \cup {unique_task}]
        schedule(cmd) ==
            [tasks |-> added.tasks,
             timers |-> added.timers (+) SetToBag({cmd}),
             armed |-> added.armed (+) SetToBag({[key |-> unique_task, cmd |-> cmd]}),
             outcome |-> "armed"]
    IN  IF already_scheduled(unique_task, st.tasks)
        THEN [tasks |-> st.tasks, timers |-> st.timers, armed |-> st.armed,
              outcome |-> "duplicate"]
        ELSE IF isinstance_datetime(when2)
        THEN schedule(at_time(when2, runner_func))
        ELSE IF ~isinstance_time(when2)
        THEN [tasks |-> added.tasks, timers |-> added.timers, armed |-> added.armed,
              outcome |-> "ValueError"]
        ELSE schedule(daily_at(when2, runner_func))

(***************************************************************************)
(* LoggingCommandBot.on_welcome                                            *)
(***************************************************************************)
startswith_hash(channel) == Len(channel) > 0 /\ channel[1] = "#"

\* faulty variant of normalize: the name is used as it came
normalize_nothing(channel) == channel

normalize(channel) == IF startswith_hash(channel) THEN channel ELSE <<"#">> \o channel

\* `for channel in self._channels: ... connection.join(channel)`
join_channels(chans) == [i \in DOMAIN chans |-> normalize(chans[i])]

\* `for handler in core.DelayHandler._registry: ...`: the commands scheduled
\* the command one iteration schedules: `arguments = handler.channel, handler.func`,
\* `runner = functools.partial(self.background_runner, arguments)`
delayed_command(handler) ==
    LET arguments == Tuple(<<handler.channel, handler.func>>)
        runner == Partial(<<arguments>>)
    IN  IF handler.repeat THEN execute_every(handler.duration, runner)
        ELSE execute_delayed(handler.duration, runner)

\* the loop has no try/except: when executor(handler.duration, runner) raises,
\* the exception leaves the loop and on_welcome.  acc = [timers, done, raised]
RECURSIVE schedule_delayed(_, _, _)
schedule_delayed(registry, faults, acc) ==
    IF registry = <<>> THEN acc
    ELSE LET handler == Head(registry)
         IN  IF handler \in faults
             THEN [acc EXCEPT !.raised = TRUE]
             ELSE schedule_delayed(Tail(registry), faults,
                      [acc EXCEPT !.timers = @ (+) SetToBag({delayed_command(handler)}),
                                  !.done = Append(@, handler)])

\* faulty variant of schedule_at_all: no try/except around _schedule_at
RECURSIVE schedule_at_all_no_try(_, _)
schedule_at_all_no_try(registry, acc) ==
    IF registry = <<>> THEN acc
    ELSE LET handler == Head(registry)
             r == _schedule_at([tasks |-> acc.tasks, timers |-> acc.timers,
                                armed |-> acc.armed],
                               handler.name, handler.channel, handler.when,
                               handler.func, handler.doc)
             next == [tasks |-> r.tasks, timers |-> r.timers, armed |-> r.armed,
                      outcomes |-> Append(acc.outcomes, r.outcome),
                      logged |-> acc.logged,
                      raised |-> r.outcome = "ValueError"]
         IN  IF next.raised THEN next
             ELSE schedule_at_all_no_try(Tail(registry), next)

\* `for handler in core.AtHandler._registry: try: self._schedule_at(...)
\* except Exception: log.exception(...)`.  acc = [tasks, timers, armed,
\* outcomes, logged, raised]
RECURSIVE schedule_at_all(_, _)
schedule_at_all(registry, acc) ==
    IF registry = <<>> THEN acc
    ELSE LET handler == Head(registry)
             r == _schedule_at([tasks |-> acc.tasks, timers |-> acc.timers,
                                armed |-> acc.armed],
                               handler.name, handler.channel, handler.when,
                               handler.func, handler.doc)
             next == [tasks |-> r.tasks, timers |-> r.timers, armed |-> r.armed,
                      outcomes |-> Append(acc.outcomes, r.outcome),
                      logged |-> IF r.outcome = "ValueError"
                                 THEN Append(acc.logged, handler) ELSE acc.logged,
                      raised |-> FALSE]
         IN  schedule_at_all(Tail(registry), next)

\* LoggingCommandBot._set_keepalive: is connection.set_keepalive called
_set_keepalive(cfg) == cfg.tcp_keepalive # "absent"

\* faulty variant of on_welcome: every Connected event starts from an empty
\* warn record and an empty key set
on_welcome_fresh_session ==
    /\ welcomes < MaxWelcomes
    /\ LET d == schedule_delayed(DelayRegistry, DelayFaults,
                                 [timers |-> timers, done |-> <<>>, raised |-> FALSE])
           start == [tasks |-> {}, timers |-> d.timers, armed |-> armed,
                     outcomes |-> <<>>, logged |-> <<>>, raised |-> d.raised]
           a == IF d.raised THEN start ELSE schedule_at_all(AtRegistry, start)
       IN  /\ scheduled_tasks' = a.tasks
           /\ warn_history' = <<>>
           /\ timers' = a.timers
           /\ armed' = a.armed
           /\ welcomes' = welcomes + 1
           /\ last' = [op |-> "welcome",
                       nickserv |-> config.nickserv_password # "",
                       joins |-> join_channels(channels),
                       delayed |-> d.done,
                       outcomes |-> a.outcomes, logged |-> a.logged,
                       raised |-> a.raised,
                       keepalive |-> ~a.raised /\ _set_keepalive(config),
                       tasks_before |-> scheduled_tasks,
                       warn_before |-> warn_history]
    /\ UNCHANGED <<environment, noticed, channels, now>>

on_welcome ==
    /\ welcomes < MaxWelcomes
    /\ LET d == schedule_delayed(DelayRegistry, DelayFaults,
                                 [timers |-> timers, done |-> <<>>, raised |-> FALSE])
           start == [tasks |-> scheduled_tasks, timers |-> d.timers, armed |-> armed,
                     outcomes |-> <<>>, logged |-> <<>>, raised |-> d.raised]
           a == IF d.raised THEN start ELSE schedule_at_all(AtRegistry, start)
       IN  /\ scheduled_tasks' = a.tasks
           /\ timers' = a.timers
           /\ armed' = a.armed
           /\ welcomes' = welcomes + 1
           /\ last' = [op |-> "welcome",
                       nickserv |-> config.nickserv_password # "",
                       joins |-> join_channels(channels),
                       delayed |-> d.done,
                       outcomes |-> a.outcomes, logged |-> a.logged,
                       raised |-> a.raised,
                       keepalive |-> ~a.raised /\ _set_keepalive(config),
                       tasks_before |-> scheduled_tasks,
                       warn_before |-> warn_history]
    /\ UNCHANGED <<environment, warning, channels, now>>

(***************************************************************************)
(* LoggingCommandBot.on_invite                                             *)
(***************************************************************************)
\* one observable step of a handler, in the order the code takes them
Step(act, target, secs, text, arg) ==
    [act |-> act, target |-> target, secs |-> secs, text |-> text, arg |-> arg]

\* the steps of on_invite for the inviter nick and the invited name
invite_steps(nick, name) ==
    LET channel == normalize(name)
    IN  << Step("append", channel, 0, "", ""),
           Step("sleep", <<>>, 1, "", ""),
           Step("join", channel, 0, "", ""),
           Step("sleep", <<>>, 1, "", ""),
           Step("privmsg", channel, 0, "You summoned me, master %s?", nick) >>

on_invite ==
    \E nick \in Nicks, name \in InviteNames :
        /\ Len(channels) < Len(InitialChannels) + MaxInvites
        /\ channels' = Append(channels, normalize(name))
        /\ last' = [op |-> "invite", nick |-> nick, name |-> name,
                    trace |-> invite_steps(nick, name),
                    channels_before |-> channels]
        /\ UNCHANGED <<environment, warning, scheduling, now>>

(***************************************************************************)
(* Message events                                                          *)
(***************************************************************************)
\* faulty variant of lstrip: nothing is removed
lstrip_nothing(text) == text

\* str.lstrip()
RECURSIVE lstrip(_)
lstrip(text) ==
    IF text # <<>> /\ Head(text) \in Whitespace THEN lstrip(Tail(text)) ELSE text

\* str.rstrip()
RECURSIVE rstrip(_)
rstrip(text) ==
    IF text # <<>> /\ text[Len(text)] \in Whitespace
    THEN rstrip(SubSeq(text, 1, Len(text) - 1)) ELSE text

\* faulty variant of strip: only the empty text counts as blank
strip_nothing(text) == text

\* str.strip()
strip(text) == rstrip(lstrip(text))

\* ''.join(event.arguments)
RECURSIVE join(_)
join(arguments) ==
    IF arguments = <<>> THEN <<>> ELSE Head(arguments) \o join(Tail(arguments))

\* the calls of handle_action(channel, nick, msg) one message event makes
dispatch(channel, nick, arguments) ==
    LET msg == join(arguments)
    IN  IF strip(msg) = <<>> THEN <<>>
        ELSE << [channel |-> channel, nick |-> nick, msg |-> msg] >>

\* LoggingCommandBot.on_pubmsg
on_pubmsg ==
    /\ inbox # <<>>
    /\ Head(inbox).type = "pubmsg"
    /\ LET event == Head(inbox)
       IN  last' = [op |-> "pubmsg", event |-> event,
                    dispatched |-> dispatch(event.target, event.nick, event.arguments)]
    /\ inbox' = Tail(inbox)
    /\ UNCHANGED <<registries, outbox, warning, scheduling, channels, now>>

\* LoggingCommandBot.on_privmsg
on_privmsg ==
    /\ inbox # <<>>
    /\ Head(inbox).type = "privmsg"
    /\ LET event == Head(inbox)
       IN  last' = [op |-> "privmsg", event |-> event,
                    dispatched |-> dispatch(event.nick, event.nick, event.arguments)]
    /\ inbox' = Tail(inbox)
    /\ UNCHANGED <<registries, outbox, warning, scheduling, channels, now>>

(***************************************************************************)
(* LoggingCommandBot.transmit                                              *)
(***************************************************************************)
Marker == <<"/", "m", "e", " ">>
\* msg.startswith('/me ')
startswith_me(msg) == Len(msg) >= Len(Marker) /\ SubSeq(msg, 1, Len(Marker)) = Marker

\* msg.split(' ', 1)[-1]: what follows the first space, or all of msg
split_last(msg) ==
    LET spaces == {i \in DOMAIN msg : msg[i] = " "}
    IN  IF spaces = {} THEN msg
        ELSE LET first == CHOOSE i \in spaces : \A j \in spaces : i <= j
             IN  SubSeq(msg, first + 1, Len(msg))

None == <<"None">>

\* faulty variant of transmit: InvalidCharacters is not caught
transmit_catches_too_long_only(channel, msg, outcome) ==
    LET action == startswith_me(msg)
        payload == IF action THEN lstrip(split_last(msg)) ELSE msg
        send == [func |-> IF action THEN "action" ELSE "privmsg",
                 target |-> channel, payload |-> payload]
    IN  IF outcome = "ok"
        THEN [sends |-> <<send>>, logged |-> <<>>, raised |-> FALSE, returned |-> payload]
        ELSE IF outcome = "MessageTooLong"
        THEN [sends |-> <<send>>, logged |-> <<payload>>, raised |-> FALSE,
              returned |-> None]
        ELSE [sends |-> <<send>>, logged |-> <<>>, raised |-> TRUE, returned |-> None]

\* transmit(channel, msg) when the transport's send ends in `outcome`: the send
\* calls made, the warnings logged, whether an exception leaves transmit, and
\* the value returned
transmit(channel, msg, outcome) ==
    LET action == startswith_me(msg)
        payload == IF action THEN lstrip(split_last(msg)) ELSE msg
        send == [func |-> IF action THEN "action" ELSE "privmsg",
                 target |-> channel, payload |-> payload]
    IN  IF outcome = "ok"
        THEN [sends |-> <<send>>, logged |-> <<>>, raised |-> FALSE, returned |-> payload]
        ELSE [sends |-> <<send>>, logged |-> <<payload>>, raised |-> FALSE,
              returned |-> None]

\* one call of transmit for the next piece of handler output; `self._conn`
\* exists once on_welcome has run, and output is only produced after that
Transmit ==
    \E outcome \in SendOutcomes :
        /\ welcomes > 0
        /\ outbox # <<>>
        /\ LET out == Head(outbox)
               r == transmit(out.channel, out.msg, outcome)
           IN  last' = [op |-> "transmit", channel |-> out.channel, msg |-> out.msg,
                        outcome |-> outcome,
                        sends |-> r.sends, logged |-> r.logged, raised |-> r.raised,
                        returned |-> r.returned,
                        previous |-> IF last.op = "transmit" THEN last.outcome
                                     ELSE "none"]
        /\ outbox' = Tail(outbox)
        /\ UNCHANGED <<registries, inbox, warning, scheduling, channels, now>>

(***************************************************************************)
(* Timer fire: the transport calls the scheduled runner                    *)
(***************************************************************************)
\* the call runner() = self.background_runner(*args) for
\* background_runner(self, channel, func)
background_runner(args) ==
    IF Len(args) # 2
    THEN [error |-> "TypeError", invoked |-> FALSE, channel |-> Scalar(""),
          func |-> Scalar("")]
    ELSE [error |-> "none", invoked |-> ~args[2].tuple, channel |-> args[1],
          func |-> args[2]]

\* faulty variant of TimerFire: the callback clears the key set
TimerFire_clears_keys ==
    \E cmd \in BagToSet(timers) :
        /\ timers' = IF cmd.repeat THEN timers ELSE timers (-) SetToBag({cmd})
        /\ scheduled_tasks' = {}
        /\ last' = [op |-> "fire", cmd |-> cmd, run |-> background_runner(cmd.runner.args),
                    tasks_before |-> scheduled_tasks, warn_before |-> warn_history]
        /\ UNCHANGED <<environment, warning, armed, welcomes, channels, now>>

TimerFire ==
    \E cmd \in BagToSet(timers) :
        /\ timers' = IF cmd.repeat THEN timers ELSE timers (-) SetToBag({cmd})
        /\ last' = [op |-> "fire", cmd |-> cmd, run |-> background_runner(cmd.runner.args),
                    tasks_before |-> scheduled_tasks, warn_before |-> warn_history]
        /\ UNCHANGED <<environment, warning, scheduled_tasks, armed, welcomes,
                       channels, now>>

(***************************************************************************)
(* Specifications                                                          *)
(***************************************************************************)
Handler(reg, i) == [registry |-> reg, id |-> i]
Registry(reg, n) == [i \in 1..n |-> Handler(reg, i)]

RECURSIVE SeqsUpTo(_, _)
SeqsUpTo(S, n) ==
    IF n = 0 THEN {<<>>}
    ELSE LET shorter == SeqsUpTo(S, n - 1)
         IN  shorter \cup {Append(q, x) : q \in shorter, x \in S}

\* no message event pending, no handler output pending
NoTraffic == inbox = <<>> /\ outbox = <<>>

InitCommon ==
    /\ warn_history = <<>>
    /\ noticed = <<>>
    /\ scheduled_tasks = {}
    /\ channels = InitialChannels
    /\ timers = EmptyBag
    /\ armed = EmptyBag
    /\ now = 0
    /\ welcomes = 0
    /\ last = [op |-> "init"]

\* scheduling: any at-time registry, connect and reconnects, timer fires
InitSched ==
    /\ InitCommon
    /\ NoTraffic
    /\ config \in [privacy_warning : {"unset"}, tcp_keepalive : {"absent", "number"},
                   nickserv_password : {""}]
    /\ JoinRegistry = Registry("join", MaxHandlers)
    /\ LeaveRegistry = Registry("leave", MaxHandlers)
    /\ AtRegistry \in SeqsUpTo(AtHandlers, MaxAt)
    /\ DelayFaults = {}

NextSched == on_welcome \/ TimerFire

SpecSched == InitSched /\ [][NextSched]_vars

\* connecting when the transport may reject a delayed handler's duration
InitConnect ==
    /\ InitCommon
    /\ NoTraffic
    /\ config \in [privacy_warning : {"unset"}, tcp_keepalive : {"absent", "number"},
                   nickserv_password : {""}]
    /\ JoinRegistry = Registry("join", MaxHandlers)
    /\ LeaveRegistry = Registry("leave", MaxHandlers)
    /\ AtRegistry \in SeqsUpTo(AtHandlers, 2)
    /\ DelayFaults \in SUBSET Range(DelayRegistry)

NextConnect == on_welcome \/ TimerFire

SpecConnect == InitConnect /\ [][NextConnect]_vars

\* fan-out of join / leave events: any join and leave registries, any subset
\* of the handlers raising
InitFan ==
    /\ InitCommon
    /\ NoTraffic
    /\ config \in [privacy_warning : {"unset", "suppress"}, tcp_keepalive : {"absent"},
                   nickserv_password : {""}]
    /\ \E n \in 0..MaxHandlers : JoinRegistry = Registry("join", n)
    /\ \E n \in 0..MaxHandlers : LeaveRegistry = Registry("leave", n)
    /\ AtRegistry = <<>>
    /\ DelayFaults = {}

NextFan == on_join \/ on_leave

SpecFan == InitFan /\ [][NextFan]_vars

\* privacy warnings over time: join events and the clock
InitWarn ==
    /\ InitCommon
    /\ NoTraffic
    /\ config \in [privacy_warning : {"unset", "suppress"}, tcp_keepalive : {"absent"},
                   nickserv_password : {""}]
    /\ JoinRegistry = Registry("join", 1)
    /\ LeaveRegistry = Registry("leave", 1)
    /\ AtRegistry = <<>>
    /\ DelayFaults = {}

NextWarn == on_join \/ Tick

SpecWarn == InitWarn /\ [][NextWarn]_vars

\* one bot over connect, reconnects, joins, the clock and timer fires
SessionAtRegistry ==
    << [name |-> "n", channel |-> "#logged", when |-> When("date", 1, 0, ""),
        func |-> "f1", doc |-> "d"],
       [name |-> "n", channel |-> "#logged", when |-> When("time", 0, 9, "naive"),
        func |-> "f1", doc |-> "d"] >>

InitSession ==
    /\ InitCommon
    /\ NoTraffic
    /\ config \in [privacy_warning : {"unset"}, tcp_keepalive : {"absent"},
                   nickserv_password : {""}]
    /\ JoinRegistry = Registry("join", 0)
    /\ LeaveRegistry = Registry("leave", 0)
    /\ AtRegistry = SessionAtRegistry
    /\ DelayFaults = {}

NextSession == on_welcome \/ on_join \/ Tick \/ TimerFire

SpecSession == InitSession /\ [][NextSession]_vars

\* invitations and (re)connects
InitInvite ==
    /\ InitCommon
    /\ NoTraffic
    /\ config \in [privacy_warning : {"unset"}, tcp_keepalive : {"absent"},
                   nickserv_password : {""}]
    /\ JoinRegistry = Registry("join", 0)
    /\ LeaveRegistry = Registry("leave", 0)
    /\ AtRegistry = <<>>
    /\ DelayFaults = {}

NextInvite == on_invite \/ on_welcome

SpecInvite == InitInvite /\ [][NextInvite]_vars

\* message events: any public or private message of up to two arguments
MsgEvents ==
    LET Arguments == SeqsUpTo(SeqsUpTo(MsgChars, MaxPart), 2)
    IN  [type : {"pubmsg"}, nick : {"alice"}, target : {"#logged"},
         arguments : Arguments]
        \cup [type : {"privmsg"}, nick : {"alice"}, target : {nickname},
              arguments : Arguments]

InitMsg ==
    /\ InitCommon
    /\ config \in [privacy_warning : {"unset"}, tcp_keepalive : {"absent"},
                   nickserv_password : {""}]
    /\ JoinRegistry = Registry("join", 0)
    /\ LeaveRegistry = Registry("leave", 0)
    /\ AtRegistry = <<>>
    /\ DelayFaults = {}
    /\ inbox \in {<<e>> : e \in MsgEvents}
    /\ outbox = <<>>

NextMsg == on_pubmsg \/ on_privmsg

SpecMsg == InitMsg /\ [][NextMsg]_vars

\* handler output handed to transmit: any one text, or two texts in a row
SampleOut == { <<"/", "m", "e", " ", "e">>, <<"e">> }
Output(msg) == [channel |-> "#logged", msg |-> msg]

InitTransmit ==
    /\ InitCommon
    /\ config \in [privacy_warning : {"unset"}, tcp_keepalive : {"absent"},
                   nickserv_password : {""}]
    /\ JoinRegistry = Registry("join", 0)
    /\ LeaveRegistry = Registry("leave", 0)
    /\ AtRegistry = <<>>
    /\ DelayFaults = {}
    /\ inbox = <<>>
    /\ outbox \in {<<Output(m)>> : m \in SeqsUpTo(OutChars, MaxMsg)}
                  \cup {<<Output(a), Output(b)>> : a, b \in SampleOut}

NextTransmit == on_welcome \/ Transmit

SpecTransmit == InitTransmit /\ [][NextTransmit]_vars

(***************************************************************************)
(* Properties of scheduling (SpecSched)                                    *)
(***************************************************************************)
key_of(handler) ==
    unique_task_of(handler.name, handler.channel, handler.when, handler.func,
                   handler.doc)
well_formed(when) == when.shape \in {"datetime", "date", "time"}

\* the commands _schedule_at has armed for a key, as a bag
ArmedFor(key) ==
    LET pairs == {p \in BagToSet(armed) : p.key = key}
    IN  [p \in pairs |-> armed[p]]

\* C1: after any number of on_welcome events every handler of the delayed /
\* periodic-delay registry has at most one armed timer.
C1_OneTimerPerDelayHandler ==
    \A i \in DOMAIN DelayRegistry :
        CopiesIn(delayed_command(DelayRegistry[i]), timers) <= 1

\* C2: a well-formed task registered twice through _schedule_at has exactly
\* one timer armed for it; the second registration (a later entry of the
\* registry with the same key, or the same entry on a later on_welcome) is a
\* silent duplicate: no timer, no error, the key set as it was.
C2_DedupIdempotence ==
    /\ \A key \in scheduled_tasks :
           well_formed(key.when) => BagCardinality(ArmedFor(key)) = 1
    /\ last.op = "welcome" =>
           /\ \A j \in DOMAIN AtRegistry :
                  LET key == key_of(AtRegistry[j])
                  IN  /\ well_formed(key.when)
                      /\ \/ key \in last.tasks_before
                         \/ \E i \in 1..(j - 1) : key_of(AtRegistry[i]) = key
                      => /\ last.outcomes[j] = "duplicate"
                         /\ AtRegistry[j] \notin Range(last.logged)
           /\ (\A j \in DOMAIN AtRegistry : key_of(AtRegistry[j]) \in last.tasks_before)
                  => /\ scheduled_tasks = last.tasks_before
                     /\ BagCardinality(armed) = Cardinality(
                            {k \in last.tasks_before : well_formed(k.when)})

C2_Witness ==
    /\ last.op = "welcome"
    /\ welcomes = 1
    /\ \E i, j \in DOMAIN AtRegistry :
           /\ i < j
           /\ AtRegistry[i] = AtRegistry[j]
           /\ well_formed(AtRegistry[j].when)
           /\ last.outcomes[i] = "armed"
           /\ last.outcomes[j] = "duplicate"
           /\ BagCardinality(ArmedFor(key_of(AtRegistry[j]))) = 1

\* C3: a task whose when is a date-time is armed as a single-fire timer at
\* exactly that date-time.
C3_InstantKeepsItsTime ==
    \A p \in BagToSet(armed) :
        p.key.when.shape = "datetime" =>
            /\ p.cmd.kind = "at_time"
            /\ p.cmd.when.day = p.key.when.day
            /\ p.cmd.when.tod = p.key.when.tod

\* C8: when the timer of any scheduled handler fires, the background runner
\* is invoked with the handler's channel and the handler's function, and the
\* fire does not end in an error with the handler never invoked.
C8_FireRunsHandler ==
    last.op = "fire" =>
        /\ last.run.error = "none"
        /\ last.run.invoked
        /\ \A h \in Range(DelayRegistry) :
               last.cmd = delayed_command(h) =>
                   /\ last.run.channel = Scalar(h.channel)
                   /\ last.run.func = Scalar(h.func)
        /\ \A p \in BagToSet(armed) :
               last.cmd = p.cmd =>
                   /\ last.run.channel = Scalar(p.key.channel)
                   /\ last.run.func = Scalar(p.key.func)

C10_ShapeDispatch ==
    \A i, j \in DOMAIN AtRegistry :
        LET d == AtRegistry[i]
            t == AtRegistry[j]
            runner == Partial(<<Scalar(d.channel), Scalar(d.func)>>)
            once == at_time(When("datetime", d.when.day, 0, "UTC"), runner)
            daily == daily_at(t.when, runner)
        IN  /\ welcomes > 0
            /\ d.when.shape = "date"
            /\ t.when.shape = "time"
            /\ [d EXCEPT !.when = t.when] = t
            => /\ key_of(d) # key_of(t)
               /\ {key_of(d), key_of(t)} \subseteq scheduled_tasks
               /\ ArmedFor(key_of(d)) = SetToBag({[key |-> key_of(d), cmd |-> once]})
               /\ ArmedFor(key_of(t)) = SetToBag({[key |-> key_of(t), cmd |-> daily]})
               /\ ~once.repeat
               /\ daily.repeat
               /\ CopiesIn(daily, timers) >= 1

C10_Witness ==
    /\ welcomes > 0
    /\ last.op = "fire"
    /\ last.cmd.kind = "daily_at"
    /\ CopiesIn(last.cmd, timers) = 1
    /\ \E i, j \in DOMAIN AtRegistry :
           /\ AtRegistry[i].when.shape = "date"
           /\ AtRegistry[j].when.shape = "time"
           /\ [AtRegistry[i] EXCEPT !.when = AtRegistry[j].when] = AtRegistry[j]
           /\ last.cmd.when = AtRegistry[j].when
           /\ \A p \in BagToSet(ArmedFor(key_of(AtRegistry[i]))) :
                  CopiesIn(p.cmd, timers) = 0

\* C18: in every reachable state the registered task keys are exactly the
\* keys for which a timer has been armed, and every registration of a task
\* with a malformed when reports the configuration error, the second one as
\* well as the first.
C18_TasksAreArmedKeys ==
    /\ scheduled_tasks = {p.key : p \in BagToSet(armed)}
    /\ last.op = "welcome" /\ ~last.raised =>
           \A i \in DOMAIN AtRegistry :
               ~well_formed(AtRegistry[i].when) => last.outcomes[i] = "ValueError"

(***************************************************************************)
(* Properties of the join / leave fan-out (SpecFan)                        *)
(***************************************************************************)
\* C4: on a leave event every handler of the leave registry is invoked
\* exactly once, no handler of the join registry is invoked, and no privacy
\* warning is sent or recorded.
C4_LeaveInvokesLeaveHandlers ==
    last.op = "leave" =>
        /\ last.invoked = LeaveRegistry
        /\ \A h \in Range(last.invoked) : h.registry # "join"
        /\ last.notices = 0
        /\ warn_history = last.before

\* C7: on_join invokes every join handler exactly once in registry order,
\* reports the error of each raising handler exactly once, lets no handler
\* error escape, and goes on to the privacy-warning logic.
C7_FanOutIsolation ==
    last.op = "join" =>
        /\ last.invoked = JoinRegistry
        /\ last.logged = SelectSeq(JoinRegistry, LAMBDA h : h \in last.raising)
        /\ ~last.raised
        /\ last.warn_called = qualifying(last.nick, last.channel)

C7_Witness ==
    /\ last.op = "join"
    /\ Len(JoinRegistry) = 3
    /\ last.raising = {JoinRegistry[2]}
    /\ last.invoked = JoinRegistry
    /\ last.logged = <<JoinRegistry[2]>>
    /\ last.notices = WarnLines

\* C17: a join sends a privacy warning or changes the WarnRecord only if the
\* joining nick is not the bot's own and the channel is a logged channel; the
\* bot's own join and a join to an unlogged channel send nothing and leave
\* the WarnRecord as it was, and the join handlers are invoked all the same.
C17_WarningOnlyForOthersOnLogged ==
    last.op = "join" =>
        LET self == last.nick = nickname
            logged == last.channel \in log_channels
        IN  /\ (last.notices > 0 \/ warn_history # last.before) => ~self /\ logged
            /\ (self \/ ~logged) =>
                   /\ last.notices = 0
                   /\ last.lookups = 0
                   /\ warn_history = last.before
                   /\ noticed = last.noticed_before
                   /\ last.invoked = JoinRegistry

C17_Witness ==
    /\ last.op = "join"
    /\ last.nick = nickname
    /\ last.channel \in log_channels
    /\ config.privacy_warning = "unset"
    /\ Len(JoinRegistry) = MaxHandlers
    /\ last.invoked = JoinRegistry
    /\ last.notices = 0
    /\ warn_history = last.before

C17_WitnessUnlogged ==
    /\ last.op = "join"
    /\ last.nick # nickname
    /\ last.channel \notin log_channels
    /\ last.invoked = JoinRegistry
    /\ last.notices = 0
    /\ warn_history = last.before
    /\ warn_history # <<>>

(***************************************************************************)
(* Properties of the privacy warning (SpecWarn)                            *)
(***************************************************************************)
\* C5: no identity receives two warnings 60 seconds or less apart; for an
\* identity last warned at t0 a qualifying join at t with t - t0 <= 60 sends
\* nothing and leaves the entry at t0, and one with t - t0 > 60 sends exactly
\* one warning and sets the entry to t.
C5_WarnCooldown ==
    last.op = "join" /\ last.warn_called =>
        LET nick == last.nick
            t == last.at
        IN  /\ last.notices > 0 /\ nick \in DOMAIN last.noticed_before
                => t - last.noticed_before[nick] > warn_every
            /\ nick \in DOMAIN last.before =>
                   IF t - last.before[nick] <= warn_every
                   THEN /\ last.notices = 0
                        /\ warn_history = last.before
                        /\ noticed = last.noticed_before
                   ELSE /\ last.notices = WarnLines
                        /\ warn_history = [last.before EXCEPT ![nick] = t]
                        /\ noticed[nick] = t

C5_Witness ==
    /\ last.op = "join"
    /\ last.warn_called
    /\ last.nick \in DOMAIN last.before
    /\ last.at - last.before[last.nick] = warn_every
    /\ last.notices = 0
    /\ warn_history = last.before

C5_WitnessExpired ==
    /\ last.op = "join"
    /\ last.nick \in DOMAIN last.before
    /\ last.at - last.before[last.nick] = warn_every + 1
    /\ last.notices = WarnLines

\* C6: with `privacy warning = suppress` no notice is ever sent, and warn
\* neither consults nor changes the warn record.
C6_Suppression ==
    config.privacy_warning = "suppress" =>
        /\ warn_history = <<>>
        /\ noticed = <<>>
        /\ last.op = "join" => last.notices = 0 /\ last.lookups = 0

C6_Witness ==
    /\ config.privacy_warning = "suppress"
    /\ last.op = "join"
    /\ last.warn_called
    /\ now > warn_every

(***************************************************************************)
(* Properties of connecting with scheduling failures (SpecConnect)         *)
(***************************************************************************)
\* C11: a failure while scheduling any one handler during on_welcome, delayed
\* or at-time, is caught and does not block the rest: no error escapes, all
\* remaining handlers of both registries are scheduled and keepalive is armed
\* when it is configured.
C11_SchedulingFailureIsolated ==
    last.op = "welcome" =>
        /\ ~last.raised
        /\ \A h \in Range(DelayRegistry) \ DelayFaults : h \in Range(last.delayed)
        /\ \A j \in DOMAIN AtRegistry :
               well_formed(AtRegistry[j].when) =>
                   BagCardinality(ArmedFor(key_of(AtRegistry[j]))) = 1
        /\ last.keepalive = (config.tcp_keepalive # "absent")

C20_TimerFiresKeepInvariants ==
    /\ \A key \in scheduled_tasks : BagCardinality(ArmedFor(key)) <= 1
    /\ \A p \in BagToSet(armed) : p.key \in scheduled_tasks
    /\ last.op = "join" /\ last.notices > 0 /\ last.nick \in DOMAIN last.noticed_before
           => last.at - last.noticed_before[last.nick] > warn_every
    /\ last.op = "fire" =>
           /\ scheduled_tasks = last.tasks_before
           /\ warn_history = last.warn_before

C20_Witness ==
    /\ last.op = "fire"
    /\ last.run.error = "none"
    /\ welcomes = 2
    /\ scheduled_tasks # {}
    /\ now > warn_every
    /\ \E n \in DOMAIN warn_history : warn_history[n] > warn_every

(***************************************************************************)
(* Properties of invitations (SpecInvite)                                  *)
(***************************************************************************)
with_prefix(name) == IF name[1] = "#" THEN name ELSE <<"#">> \o name

NoDuplicates(seq) == \A i, j \in DOMAIN seq : seq[i] = seq[j] => i = j

\* C19: the tracked channels hold each normalized channel name at most once,
\* and on_welcome issues exactly one join per distinct normalized channel.
C19_ChannelsAreASet ==
    /\ NoDuplicates([i \in DOMAIN channels |-> with_prefix(channels[i])])
    /\ last.op = "welcome" => NoDuplicates(last.joins)

(***************************************************************************)
(* Properties of message events (SpecMsg)                                  *)
(***************************************************************************)
\* C14: a message whose content is empty or whitespace-only triggers no
\* dispatch; any other message is handed to the command matcher exactly once
\* as (channel, sender, text), with channel the event target for a public
\* message and the sender's nick for a private one.
C14_MessageDispatch ==
    last.op \in {"pubmsg", "privmsg"} =>
        LET text == join(last.event.arguments)
            blank == \A i \in DOMAIN text : text[i] \in Whitespace
            channel == IF last.op = "pubmsg" THEN last.event.target
                       ELSE last.event.nick
        IN  IF blank THEN last.dispatched = <<>>
            ELSE last.dispatched =
                     << [channel |-> channel, nick |-> last.event.nick, msg |-> text] >>

C14_Witness ==
    /\ last.op = "privmsg"
    /\ last.event.arguments = << <<" ">>, <<"a", "\t">> >>
    /\ Len(last.dispatched) = 1
    /\ last.dispatched[1].channel = "alice"
    /\ last.dispatched[1].msg = <<" ", "a", "\t">>

C14_WitnessBlank ==
    /\ last.op = "pubmsg"
    /\ last.event.arguments = << <<" ", "\t">> >>
    /\ last.dispatched = <<>>

(***************************************************************************)
(* Properties of transmit (SpecTransmit)                                   *)
(***************************************************************************)
\* C15: transmit sends a message that starts with "/me " as an action whose
\* payload is the text after the marker without its leading whitespace, and
\* any other message as an ordinary message with its text unchanged; exactly
\* one send call is made per transmit.
C15_ActionMarker ==
    last.op = "transmit" =>
        /\ Len(last.sends) = 1
        /\ last.sends[1].target = last.channel
        /\ IF startswith_me(last.msg)
           THEN LET rest == SubSeq(last.msg, Len(Marker) + 1, Len(last.msg))
                    payload == last.sends[1].payload
                IN  /\ last.sends[1].func = "action"
                    /\ \E k \in 0..Len(rest) :
                           /\ payload = SubSeq(rest, k + 1, Len(rest))
                           /\ \A i \in 1..k : rest[i] \in Whitespace
                    /\ payload # <<>> => payload[1] \notin Whitespace
           ELSE /\ last.sends[1].func = "privmsg"
                /\ last.sends[1].payload = last.msg

C15_Witness ==
    /\ last.op = "transmit"
    /\ last.msg = <<"/", "m", "e", " ", " ", "e">>
    /\ last.sends = << [func |-> "action", target |-> "#logged", payload |-> <<"e">>] >>

\* C16: a send that fails with MessageTooLong or InvalidCharacters is caught
\* and logged, the message is dropped after exactly one attempt, transmit
\* returns without raising, and the next transmit is attempted normally.
C16_SendFailureDropped ==
    last.op = "transmit" =>
        /\ last.outcome \in {"MessageTooLong", "InvalidCharacters"} =>
               /\ Len(last.sends) = 1
               /\ Len(last.logged) = 1
               /\ ~last.raised
               /\ last.returned = None
        /\ last.previous \in {"MessageTooLong", "InvalidCharacters"} =>
               /\ Len(last.sends) = 1
               /\ last.outcome = "ok" => last.returned = last.sends[1].payload

C16_Witness ==
    /\ last.op = "transmit"
    /\ last.previous = "InvalidCharacters"
    /\ last.outcome = "ok"
    /\ Len(last.sends) = 1
    /\ last.returned = last.sends[1].payload
    /\ outbox = <<>>

====
